---- MODULE Spec2Model ----
(***************************************************************************)
(* A model of the frontend-model library: the Model factory                *)
(* (src/src/factories/Model.js), its pending queues                        *)
(* (src/src/factories/Queue.js), the Repository and Listener classes       *)
(* (src/src/factories/Repository.js) and the replaceObjectProperties       *)
(* helper (src/src/helpers/replaceObjectProperties.js).                    *)
(*                                                                         *)
(* JavaScript objects live in a heap indexed by references 1..NumRefs, so  *)
(* that "same reference" and "same fields" are different things.  A field  *)
(* that is not set on an object holds Absent (JavaScript's undefined).     *)
(* Identity values are the numbers 0..MaxId, of which 0 is falsy.          *)
(***************************************************************************)
EXTENDS Integers, Sequences, FiniteSets, TLC

\* ---------------------------------------------------------------- bounds
NumRefs == 3
MaxId == 2
MaxBatch == 2
MaxInflight == 2
MaxLiterals == 2
MaxRegs == 2
MaxOn == 1
MaxQueued == 2
MaxResponse == 2
MaxSynced == 1
MaxStored == 3
MaxSaved == 1
MaxTarget == 4

\* ------------------------------------------------------------ JS values
Absent == -1
NotFound == 0
NonEntity == 0

\* the truthiness test of `if (v)`: undefined and 0 are falsy
Truthy(v) == v # Absent /\ v # 0

Refs == 1..NumRefs
IdVals == 0..MaxId
NameVals == {1}

idAttribute == "id"
createdOnAttribute == "createdAt"
updatedOnAttribute == "updatedAt"
Fields == {idAttribute, "name", createdOnAttribute, updatedOnAttribute}

Entity(i, n, c, u) == [id |-> i, name |-> n, createdAt |-> c, updatedAt |-> u]
EmptyObj == [f \in Fields |-> Absent]

\* the object literals a caller builds
InputObjs == {Entity(i, n, Absent, Absent) : i \in {Absent} \cup IdVals, n \in {Absent} \cup NameVals}

\* the `defaults` option of the model under test
defaults == Entity(Absent, 2, Absent, Absent)

\* the model: the heap of objects, data and byId, the two pending queues, the
\* requests handed to the communicator and not yet settled; events and requests
\* log what the last operation triggered and dispatched
VARIABLES heap, alloc, data, byId, saveQ, destroyQ, inflight, events, requests

\* a Queue instance used on its own: its array, and the items its task ran on
VARIABLES queue, ran, called

\* a Listener instance: listeners, _internalListeners, the subscribers of its
\* eventEmitter; triggered and calls log the last trigger and its callbacks
VARIABLES listeners, internalListeners, emitter, registered, triggered, calls

\* the build: whether its EventEmitter has the method off (Node from version
\* 10, the events package from version 3)
VARIABLES emitterOff

\* the sync() call under way: "waiting" for the requests of its two drains,
\* "failed" once one of them rejected, "idle" otherwise
VARIABLES syncing

\* the registrations of Model.prototype.listenTo (_modelChangeListeners), the
\* number of them made so far; changeCalls and threw log the callbacks the last
\* 'change' event invoked and whether one of them threw
VARIABLES modelChangeListeners, listened, changeCalls, threw

modelVars == <<heap, alloc, data, byId, saveQ, destroyQ, inflight, events, requests>>

queueVars == <<queue, ran, called>>

listenerVars == <<listeners, internalListeners, emitter, registered, triggered, calls, emitterOff>>

syncVars == <<syncing>>

changeVars == <<modelChangeListeners, listened, changeCalls, threw>>

vars == <<heap, alloc, data, byId, saveQ, destroyQ, inflight, events, requests, queue, ran, called, listeners, internalListeners, emitter, registered, triggered, calls, emitterOff, syncing, modelChangeListeners, listened, changeCalls, threw>>

\* ------------------------------------------------------ sequence helpers
RemoveAt(s, i) == [j \in 1..(Len(s) - 1) |-> IF j < i THEN s[j] ELSE s[j + 1]]

\* Array.prototype.indexOf, 1-based, 0 when absent
IndexOf(s, x) == IF \E i \in DOMAIN s : s[i] = x THEN CHOOSE i \in DOMAIN s : s[i] = x /\ \A j \in 1..(i - 1) : s[j] # x ELSE 0

Range(s) == {s[i] : i \in DOMAIN s}

Ev(e, p) == [event |-> e, payload |-> p]

\* all sequences over S of length 1..n
SeqsUpTo(S, n) == UNION {[1..k -> S] : k \in 1..n}

\* ------------------------------------------------------- lodash helpers
\* _.extend(obj, props): every own key of props is copied over obj
Extend(obj, props) == [f \in Fields |-> IF props[f] # Absent THEN props[f] ELSE obj[f]]

\* _.matches(source)(target): every own key of source is equal in target
Matches(target, source) == \A f \in Fields : source[f] # Absent => target[f] = source[f]

\* _.find(data, source): first element matching, or undefined
Find(h, d, source) == IF \E i \in DOMAIN d : Matches(h[d[i]], source) THEN d[CHOOSE i \in DOMAIN d : Matches(h[d[i]], source) /\ \A j \in 1..(i - 1) : ~Matches(h[d[j]], source)] ELSE NotFound

\* ------------------------------------------- replaceObjectProperties.js
\* object branch, on the heap: delete every key of obj, then _.extend(obj, newProperties)
\* (no reference guard: with obj === newProperties the source is emptied first)
replaceObjectProperties(h, obj, newProperties) == LET cleared == [h EXCEPT ![obj] = EmptyObj] IN [cleared EXCEPT ![obj] = Extend(cleared[obj], cleared[newProperties])]

\* array branch: _.each(obj, (val, index) => obj.splice(index, 1)) with the
\* length read once by _.each, then push of newProperties
RECURSIVE SpliceEach(_, _, _)
SpliceEach(arr, index, length) == IF index > length THEN arr ELSE SpliceEach(IF index <= Len(arr) THEN RemoveAt(arr, index) ELSE arr, index + 1, length)

replaceArrayProperties(arr, newProperties) == SpliceEach(arr, 1, Len(arr)) \o newProperties

\* ------------------------------------------------------------- Queue.js
\* Queue.prototype.add for one item
BadQueueAddOne(q, item) == Append(q, item)

QueueAddOne(q, item) == IF IndexOf(q, item) = 0 THEN Append(q, item) ELSE q

RECURSIVE QueueAddFrom(_, _, _)
QueueAddFrom(q, items, i) == IF i > Len(items) THEN q ELSE QueueAddFrom(QueueAddOne(q, items[i]), items, i + 1)

QueueAdd(q, items) == QueueAddFrom(q, items, 1)

QueueRemoveOne(q, item) == IF IndexOf(q, item) # 0 THEN RemoveAt(q, IndexOf(q, item)) ELSE q

RECURSIVE QueueRemoveFrom(_, _, _)
QueueRemoveFrom(q, items, i) == IF i > Len(items) THEN q ELSE QueueRemoveFrom(QueueRemoveOne(q, items[i]), items, i + 1)

QueueRemove(q, items) == QueueRemoveFrom(q, items, 1)

\* the order in which run() pops the items: last first
Reverse(s) == [i \in 1..Len(s) |-> s[Len(s) + 1 - i]]

\* ------------------------------------------------- Model.js, private API
\* the store an operation works on, threaded through its steps
Store(h, d, b) == [heap |-> h, data |-> d, byId |-> b, events |-> <<>>, reqs |-> <<>>]

\* Model.prototype.id
id(h, model) == h[model][idAttribute]

isNew(h, model) == h[model][idAttribute] = Absent

findModelInLocalData(st, model) == IF Truthy(id(st.heap, model)) THEN st.byId[id(st.heap, model)] ELSE Find(st.heap, st.data, st.heap[model])

\* the same lookup for a primitive id
findIdInLocalData(st, k) == IF Truthy(k) THEN st.byId[k] ELSE NotFound

Trigger(ev, dontTrigger, e1, e2, model) == IF dontTrigger THEN ev ELSE ev \o <<Ev(e1, model), Ev(e2, model)>>

addModelToLocalData(st, model, dontTrigger) == [st EXCEPT !.data = Append(@, model), !.byId = IF Truthy(id(st.heap, model)) THEN [@ EXCEPT ![id(st.heap, model)] = model] ELSE @, !.events = Trigger(@, dontTrigger, "change", "add", model)]

updateModelInLocalData(st, existingModel, model, dontTrigger) == [st EXCEPT !.heap = IF existingModel # model THEN replaceObjectProperties(@, existingModel, model) ELSE @, !.events = Trigger(@, dontTrigger, "change", "update", existingModel)]

removeModelFromLocalData(st, model, dontTrigger) == [st EXCEPT !.data = IF IndexOf(@, model) # 0 THEN RemoveAt(@, IndexOf(@, model)) ELSE @, !.byId = IF id(st.heap, model) # Absent THEN [@ EXCEPT ![id(st.heap, model)] = NotFound] ELSE @, !.events = Trigger(@, dontTrigger, "change", "remove", model)]

addOneToLocalData(st, model) == IF findModelInLocalData(st, model) # NotFound THEN updateModelInLocalData(st, findModelInLocalData(st, model), model, FALSE) ELSE addModelToLocalData(st, model, FALSE)

RECURSIVE addEachToLocalData(_, _, _)
addEachToLocalData(st, models, i) == IF i > Len(models) THEN st ELSE addEachToLocalData(addOneToLocalData(st, models[i]), models, i + 1)

\* the loop of addModelsToLocalData; the caller adds to the save queue
addModelsToLocalData(st, models) == addEachToLocalData(st, models, 1)

\* removeModelsFromLocalData passes (existingModel, model, dontTrigger) to the
\* two-parameter removeModelFromLocalData: its dontTrigger is the model, truthy
removeOneFromLocalData(st, existingModel) == IF existingModel # NotFound THEN removeModelFromLocalData(st, existingModel, TRUE) ELSE st

RECURSIVE removeEachFromLocalData(_, _, _)
removeEachFromLocalData(st, models, i) == IF i > Len(models) THEN st ELSE removeEachFromLocalData(removeOneFromLocalData(st, findModelInLocalData(st, models[i])), models, i + 1)

removeModelsFromLocalData(st, models) == removeEachFromLocalData(st, models, 1)

\* --------------------------------------------------------------- state
Allocated == 1..alloc

Here == Store(heap, data, byId)

\* a request as handed to the communicator, and as the log keeps it (with the
\* entity it was dispatched for)
Request(kind, k, body) == [kind |-> kind, id |-> k, body |-> body]

Dispatched(kind, k, body, model) == [kind |-> kind, id |-> k, body |-> body, model |-> model]

Wire(reqs) == [i \in 1..Len(reqs) |-> Request(reqs[i].kind, reqs[i].id, reqs[i].body)]

Commit(st) == /\ Len(inflight) + Len(st.reqs) <= MaxInflight
              /\ heap' = st.heap
              /\ data' = st.data
              /\ byId' = st.byId
              /\ events' = st.events
              /\ requests' = st.reqs
              /\ inflight' = inflight \o Wire(st.reqs)

EmptyById == [k \in IdVals |-> NotFound]

NoTrigger == [event |-> "none", payload |-> NonEntity]

InitModel == /\ heap = [r \in Refs |-> EmptyObj]
             /\ alloc = 0
             /\ data = <<>>
             /\ byId = EmptyById
             /\ saveQ = <<>>
             /\ destroyQ = <<>>
             /\ inflight = <<>>
             /\ events = <<>>
             /\ requests = <<>>

NoCall == [op |-> "none", items |-> <<>>]

InitQueue == /\ queue = <<>>
             /\ ran = <<>>
             /\ called = NoCall

Events == {"change", "add", "update"}
NullEvent == "null"
EmitterKeys == Events \cup {NullEvent}
NoModel == 0

InitListener == /\ listeners = <<>>
                /\ internalListeners = <<>>
                /\ emitter = [e \in EmitterKeys |-> <<>>]
                /\ registered = 0
                /\ triggered = NoTrigger
                /\ calls = <<>>

\* ------------------------------------------------- Model.js, public API
\* the caller builds an object literal
NewObject(limit) == \E o \in InputObjs :
    /\ alloc < limit
    /\ alloc' = alloc + 1
    /\ heap' = [heap EXCEPT ![alloc + 1] = o]
    /\ events' = <<>>
    /\ requests' = <<>>
    /\ UNCHANGED <<data, byId, saveQ, destroyQ, inflight, queueVars, listenerVars, syncVars, changeVars>>

\* Model.prototype.add(...models)
add(models) ==
    /\ Commit(addModelsToLocalData(Here, models))
    /\ saveQ' = QueueAdd(saveQ, models)
    /\ UNCHANGED <<alloc, destroyQ, queueVars, listenerVars, syncVars, changeVars>>

ModelAdd == \E models \in SeqsUpTo(Allocated, MaxBatch) : add(models)

\* Model.prototype.set(model, properties)
set(model, properties) ==
    /\ Commit(addModelsToLocalData(Store([heap EXCEPT ![model] = Extend(@, properties)], data, byId), <<model>>))
    /\ saveQ' = QueueAdd(saveQ, <<model>>)
    /\ UNCHANGED <<alloc, destroyQ, queueVars, listenerVars, syncVars, changeVars>>

ModelSet == \E model \in Allocated, properties \in InputObjs : set(model, properties)

\* the attributes lying under the defaults
BadCreated(attributes) == Extend(Extend(EmptyObj, attributes), defaults)

\* Model.prototype.create(attributes): _.extend({}, defaults, attributes), then add
created(attributes) == Extend(Extend(EmptyObj, defaults), attributes)

create(attributes) ==
    /\ alloc < NumRefs
    /\ alloc' = alloc + 1
    /\ Commit(addModelsToLocalData(Store([heap EXCEPT ![alloc + 1] = created(attributes)], data, byId), <<alloc + 1>>))
    /\ saveQ' = QueueAdd(saveQ, <<alloc + 1>>)
    /\ UNCHANGED <<destroyQ, queueVars, listenerVars, syncVars, changeVars>>

ModelCreate == \E attributes \in InputObjs : create(attributes)

\* Model.prototype.clone(model): the copy loses the three attributes, then create
cloned(obj) == [obj EXCEPT ![idAttribute] = Absent, ![createdOnAttribute] = Absent, ![updatedOnAttribute] = Absent]

clone(model) == create(cloned(heap[model]))

ModelClone == \E model \in Allocated : clone(model)

\* Model.prototype.remove(...models)
remove(models) ==
    /\ Commit(removeModelsFromLocalData(Here, models))
    /\ destroyQ' = QueueAdd(destroyQ, models)
    /\ UNCHANGED <<alloc, saveQ, queueVars, listenerVars, syncVars, changeVars>>

ModelRemove == \E models \in SeqsUpTo(Allocated, MaxBatch) : remove(models)

\* Model.prototype.save(model) with a model: a create or an update request
saveOne(st, model) == [st EXCEPT !.reqs = Append(@, IF isNew(st.heap, model) THEN Dispatched("create", Absent, st.heap[model], model) ELSE Dispatched("update", id(st.heap, model), st.heap[model], model))]

\* Model.prototype.destroy(model) with a model: a destroy request for an
\* identified model, a local removal for one without identity
destroyOne(st, model) == IF Truthy(id(st.heap, model)) THEN [st EXCEPT !.reqs = Append(@, Dispatched("destroy", id(st.heap, model), EmptyObj, model))] ELSE removeModelFromLocalData(st, model, FALSE)

save(model) ==
    /\ Commit(saveOne(Here, model))
    /\ UNCHANGED <<alloc, saveQ, destroyQ, queueVars, listenerVars, syncVars, changeVars>>

ModelSave == \E model \in Allocated : save(model)

destroy(model) ==
    /\ Commit(destroyOne(Here, model))
    /\ UNCHANGED <<alloc, saveQ, destroyQ, queueVars, listenerVars, syncVars, changeVars>>

ModelDestroy == \E model \in Allocated : destroy(model)

\* Queue.prototype.run: the items in the order the loop pops them
BadQueueRunItems(q) == IF q = <<>> THEN q ELSE Tail(Reverse(q))

QueueRunItems(q) == Reverse(q)

RECURSIVE saveEach(_, _, _)
saveEach(st, items, i) == IF i > Len(items) THEN st ELSE saveEach(saveOne(st, items[i]), items, i + 1)

RECURSIVE destroyEach(_, _, _)
destroyEach(st, items, i) == IF i > Len(items) THEN st ELSE destroyEach(destroyOne(st, items[i]), items, i + 1)

\* Model.prototype.save() without a model: queues.save.run()
saveAll ==
    /\ Commit(saveEach(Here, QueueRunItems(saveQ), 1))
    /\ saveQ' = <<>>
    /\ UNCHANGED <<alloc, destroyQ, queueVars, listenerVars, syncVars, changeVars>>

\* Model.prototype.destroy() without a model: queues.destroy.run()
destroyAll ==
    /\ Commit(destroyEach(Here, QueueRunItems(destroyQ), 1))
    /\ destroyQ' = <<>>
    /\ UNCHANGED <<alloc, saveQ, queueVars, listenerVars, syncVars, changeVars>>

\* Model.prototype.reset(): both queues emptied, byId and data replaced by
\* nothing, then fetch() dispatches the find-all request
resetting ==
    /\ Commit([Here EXCEPT !.byId = EmptyById, !.data = replaceArrayProperties(@, <<>>), !.reqs = <<Dispatched("findAll", Absent, EmptyObj, NotFound)>>])
    /\ saveQ' = <<>>
    /\ destroyQ' = <<>>
    /\ UNCHANGED <<alloc, queueVars, listenerVars, changeVars>>

reset == resetting /\ UNCHANGED syncVars

\* the requests of the two drains
Persisting == {"create", "update", "destroy"}

\* the rejection leaving sync() waiting
BadAfterRejection(phase, kind) == phase

\* Promise.all of sync(): the first rejection among its requests rejects it
afterRejection(phase, kind) == IF phase = "waiting" /\ kind \in Persisting THEN "failed" ELSE phase

\* a request fails: the communicator rejects, nothing is reconciled
Rejected == \E i \in DOMAIN inflight :
    /\ inflight' = RemoveAt(inflight, i)
    /\ events' = <<>>
    /\ requests' = <<>>
    /\ syncing' = afterRejection(syncing, inflight[i].kind)
    /\ UNCHANGED <<heap, alloc, data, byId, saveQ, destroyQ, queueVars, listenerVars, changeVars>>

\* the destroy request resolves: removeModelsFromLocalData([requestBody]) with
\* the id the request was made for
ResolvedDestroy == \E i \in DOMAIN inflight :
    /\ inflight[i].kind = "destroy"
    /\ LET st == removeOneFromLocalData(Here, findIdInLocalData(Here, inflight[i].id))
       IN /\ heap' = st.heap
          /\ data' = st.data
          /\ byId' = st.byId
          /\ events' = st.events
    /\ inflight' = RemoveAt(inflight, i)
    /\ requests' = <<>>
    /\ UNCHANGED <<alloc, saveQ, destroyQ, queueVars, listenerVars, syncVars, changeVars>>

\* the entities a server answers with: they carry a truthy identity
ServerIds == 1..MaxId

ServerObjs == {Entity(i, n, Absent, Absent) : i \in ServerIds, n \in {Absent} \cup NameVals}

\* the answers to a find-all request: entities of distinct identities
Responses == {resp \in UNION {[1..k -> ServerObjs] : k \in 0..MaxResponse} : \A i, j \in DOMAIN resp : i # j => resp[i][idAttribute] # resp[j][idAttribute]}

\* the objects parsed from an answer, new in the heap
Parsed(resp) == [j \in 1..Len(resp) |-> alloc + j]

Received(resp) == SubSeq(heap, 1, alloc) \o resp \o SubSeq(heap, alloc + Len(resp) + 1, NumRefs)

\* what the resolve callback of a request does with the answer:
\* addModelsToLocalData([response]), no queue, with events
reconciled(resp) == addModelsToLocalData(Store(Received(resp), data, byId), Parsed(resp))

\* the save queue after addModelsToLocalData called with addToQueue
BadUnqueued(q, models) == QueueAdd(q, models)

\* the save queue after addModelsToLocalData called with the models only, as
\* the resolve callbacks call it: addToQueue is false
unqueued(q, models) == q

Settle(i, resp) ==
    /\ alloc + Len(resp) <= NumRefs
    /\ alloc' = alloc + Len(resp)
    /\ heap' = reconciled(resp).heap
    /\ data' = reconciled(resp).data
    /\ byId' = reconciled(resp).byId
    /\ events' = reconciled(resp).events
    /\ inflight' = RemoveAt(inflight, i)
    /\ saveQ' = unqueued(saveQ, Parsed(resp))
    /\ UNCHANGED <<destroyQ, queueVars, listenerVars, syncVars, changeVars>>

\* the find-all request resolves with the entities of the server
resolvedFindAll(i, resp) ==
    /\ inflight[i].kind = "findAll"
    /\ Settle(i, resp)
    /\ requests' = <<>>

ResolvedFindAll == \E i \in DOMAIN inflight, resp \in Responses : resolvedFindAll(i, resp)

\* the answer to a create request: the body sent, with the identity k
Answer(body, k) == [body EXCEPT ![idAttribute] = k]

\* a create request resolves with the body and a new identity
resolvedCreate(i, k) ==
    /\ inflight[i].kind = "create"
    /\ Settle(i, <<Answer(inflight[i].body, k)>>)
    /\ requests' = <<>>

ResolvedCreate == \E i \in DOMAIN inflight, k \in ServerIds : resolvedCreate(i, k)

\* an update request resolves with the body sent
resolvedUpdate(i) ==
    /\ inflight[i].kind = "update"
    /\ Settle(i, <<inflight[i].body>>)
    /\ requests' = <<>>

ResolvedUpdate == \E i \in DOMAIN inflight : resolvedUpdate(i)

\* the requests of the two drains still in flight
Unsettled == Len(SelectSeq(inflight, LAMBDA r : r.kind \in Persisting))

\* the then of sync() running while requests are unsettled
BadAllSettled(phase, n) == phase = "waiting"

\* Promise.all([save(), destroy()]).then: every request of the two drains
\* has resolved
allSettled(phase, n) == phase = "waiting" /\ n = 0

\* Model.prototype.sync(): save() and destroy() drain the two queues in turn,
\* before any request settles
sync ==
    /\ syncing # "waiting"
    /\ Unsettled = 0
    /\ Commit(destroyEach(saveEach(Here, QueueRunItems(saveQ), 1), QueueRunItems(destroyQ), 1))
    /\ saveQ' = <<>>
    /\ destroyQ' = <<>>
    /\ syncing' = "waiting"
    /\ UNCHANGED <<alloc, queueVars, listenerVars, changeVars>>

\* the then of sync(): reset()
SyncThen ==
    /\ allSettled(syncing, Unsettled)
    /\ resetting
    /\ syncing' = "idle"

\* ---------------------------------------------- specifications of Model
NextAdd == NewObject(NumRefs) \/ ModelAdd

InitSync == syncing = "idle"

\* no specification but that of once consults the build
InitBuild == emitterOff = FALSE

InitChange == /\ modelChangeListeners = <<>>
              /\ listened = 0
              /\ changeCalls = <<>>
              /\ threw = FALSE

InitAll == InitModel /\ InitQueue /\ InitListener /\ InitBuild /\ InitSync /\ InitChange

SpecAdd == InitAll /\ [][NextAdd]_vars

ModelAddOne == \E model \in Allocated : add(<<model>>)

ModelRemoveOne == \E model \in Allocated : remove(<<model>>)

NextStore == NewObject(MaxLiterals) \/ ModelAddOne \/ ModelSet \/ ModelRemoveOne

SpecStore == InitAll /\ [][NextStore]_vars

NextDrain == NewObject(MaxLiterals) \/ ModelAddOne \/ ModelRemoveOne \/ saveAll \/ destroyAll \/ Rejected \/ ResolvedDestroy

SpecDrain == InitAll /\ [][NextDrain]_vars

NextReset == NewObject(MaxLiterals) \/ ModelAddOne \/ reset \/ ResolvedFindAll

SpecReset == InitAll /\ [][NextReset]_vars

\* the caller of sync works on the objects it built itself
Own == {model \in Allocated : model <= MaxSynced}

SyncAdd == \E model \in Own : add(<<model>>)

SyncRemove == \E model \in Own : remove(<<model>>)

NextSync == NewObject(MaxSynced) \/ SyncAdd \/ SyncRemove \/ sync \/ SyncThen \/ ResolvedCreate \/ ResolvedUpdate \/ ResolvedDestroy \/ ResolvedFindAll \/ Rejected

SpecSync == InitAll /\ [][NextSync]_vars

NextSave == NewObject(MaxLiterals) \/ ModelAddOne \/ ModelSave \/ ResolvedCreate \/ ResolvedUpdate \/ Rejected

SpecSave == InitAll /\ [][NextSave]_vars

NextDestroy == NewObject(MaxLiterals) \/ ModelAddOne \/ ModelDestroy \/ ResolvedDestroy \/ Rejected

SpecDestroy == InitAll /\ [][NextDestroy]_vars

\* the walkthrough sets fields other than the identity
SetProps == {properties \in InputObjs : properties[idAttribute] = Absent}

\* set(model, properties) changing fields and no identity
ModelSetFields == \E model \in Allocated, properties \in SetProps : set(model, properties)

\* two saves of one entity under way at once: the caller builds the entity,
\* stores it, changes its fields and saves it while earlier saves are unsettled
NextOverlap == NewObject(MaxSaved) \/ ModelAddOne \/ ModelSetFields \/ ModelSave \/ ResolvedUpdate

SpecOverlap == InitAll /\ [][NextOverlap]_vars

\* the caller runs model.remove(e); model.add(e) for a stored e: the store
\* after the two calls, the log holding the events of the add
removedThenAdded(st, model) == addModelsToLocalData([removeModelsFromLocalData(st, <<model>>) EXCEPT !.events = <<>>], <<model>>)

RemoveThenAdd(model) ==
    /\ model \in Range(data)
    /\ Commit(removedThenAdded(Here, model))
    /\ destroyQ' = QueueAdd(destroyQ, <<model>>)
    /\ saveQ' = QueueAdd(saveQ, <<model>>)
    /\ UNCHANGED <<alloc, queueVars, listenerVars, syncVars, changeVars>>

RemoveThenAddCall == \E model \in Allocated : RemoveThenAdd(model)

NextRoundTrip == NewObject(MaxLiterals) \/ ModelAddOne \/ ModelSet \/ RemoveThenAddCall

SpecRoundTrip == InitAll /\ [][NextRoundTrip]_vars

\* entities made by create and clone only
NextCreate == ModelCreate \/ ModelClone \/ ModelRemoveOne

SpecCreate == InitAll /\ [][NextCreate]_vars

\* ------------------------------------------- a Queue instance on its own
\* the items handed to the queue
QueueItems == 1..MaxQueued

SomeCall(op, items) == [op |-> op, items |-> items]

\* Queue.prototype.empty
RECURSIVE QueueEmpty(_)
QueueEmpty(q) == IF Len(q) = 0 THEN q ELSE QueueEmpty(SubSeq(q, 1, Len(q) - 1))

QueueAddCall == \E items \in SeqsUpTo(QueueItems, MaxBatch) :
    /\ queue' = QueueAdd(queue, items)
    /\ called' = SomeCall("add", items)
    /\ UNCHANGED <<ran, modelVars, listenerVars, syncVars, changeVars>>

QueueRemoveCall == \E items \in SeqsUpTo(QueueItems, MaxBatch) :
    /\ queue' = QueueRemove(queue, items)
    /\ called' = SomeCall("remove", items)
    /\ UNCHANGED <<ran, modelVars, listenerVars, syncVars, changeVars>>

QueueEmptyCall ==
    /\ queue' = QueueEmpty(queue)
    /\ called' = SomeCall("empty", <<>>)
    /\ UNCHANGED <<ran, modelVars, listenerVars, syncVars, changeVars>>

\* the task of the queue: invoked on the item `on` for the first time, it
\* adds the item `adds` to the queue it is run from; NoItem: it adds nothing
NoItem == 0

QueueTask(x, y) == [on |-> x, adds |-> y]

Tasks == {QueueTask(NoItem, NoItem)} \cup {QueueTask(x, y) : x \in QueueItems, y \in QueueItems}

\* the loop of run() stopping after its first pass
RECURSIVE BadRunLoop(_, _, _, _)
BadRunLoop(q, task, armed, done) == IF q = <<>> THEN [queue |-> q, ran |-> done] ELSE [queue |-> SubSeq(q, 1, Len(q) - 1), ran |-> Append(done, q[Len(q)])]

\* the loop of run() deaf to what the task adds
RECURSIVE DeafRunLoop(_, _, _, _)
DeafRunLoop(q, task, armed, done) == IF q = <<>> THEN [queue |-> q, ran |-> done] ELSE DeafRunLoop(SubSeq(q, 1, Len(q) - 1), task, armed, Append(done, q[Len(q)]))

\* the loop of run(): while (queue.length) { item = queue.pop(); task(item) },
\* the task called while the loop is running
RECURSIVE RunLoop(_, _, _, _)
RunLoop(q, task, armed, done) == IF q = <<>> THEN [queue |-> q, ran |-> done] ELSE RunLoop(IF armed /\ task.on = q[Len(q)] THEN QueueAddOne(SubSeq(q, 1, Len(q) - 1), task.adds) ELSE SubSeq(q, 1, Len(q) - 1), task, armed /\ task.on # q[Len(q)], Append(done, q[Len(q)]))

\* Queue.prototype.run: every item is popped and handed to the task
run(task) ==
    /\ ran' = RunLoop(queue, task, TRUE, <<>>).ran
    /\ queue' = RunLoop(queue, task, TRUE, <<>>).queue
    /\ called' = SomeCall("run", IF task.on = NoItem THEN <<>> ELSE <<task.on, task.adds>>)
    /\ UNCHANGED <<modelVars, listenerVars, syncVars, changeVars>>

QueueRunCall == \E task \in Tasks : run(task)

\* a promise returned by the task for an item of the last run rejects: run()
\* has attached no handler to it
QueueTaskRejected == \E i \in DOMAIN ran :
    /\ called' = SomeCall("rejected", <<ran[i]>>)
    /\ UNCHANGED <<queue, ran, modelVars, listenerVars, syncVars, changeVars>>

NextQueue == QueueAddCall \/ QueueRemoveCall \/ QueueEmptyCall \/ QueueRunCall \/ QueueTaskRejected

SpecQueue == InitAll /\ [][NextQueue]_vars

\* --------------------------------------------- Listener (Repository.js)
InternalSub == [kind |-> "internal", cb |-> 0]

UserSub(cb) == [kind |-> "user", cb |-> cb]

ListenerState(ls, il, em) == [listeners |-> ls, internalListeners |-> il, emitter |-> em]

\* bindInternalModelEventListener without the indexOf test
BadBindInternalModelEventListener(L, event) == [L EXCEPT !.internalListeners = Append(@, event), !.emitter = [@ EXCEPT ![event] = Append(@, InternalSub)]]

\* bindInternalModelEventListener: its this.on(event, fn) finds the event bound
\* already and subscribes fn to the emitter
bindInternalModelEventListener(L, event) == IF IndexOf(L.internalListeners, event) = 0 THEN [L EXCEPT !.internalListeners = Append(@, event), !.emitter = [@ EXCEPT ![event] = Append(@, InternalSub)]] ELSE L

\* makeListenerObject
makeListenerObject(model, event, rid) == [model |-> model, event |-> event, rid |-> rid]

\* the filter of runModelListeners without the test of the event
BadListenerFilter(h, event, payload, listener) == IF payload # NonEntity THEN (listener.model = NoModel \/ payload = listener.model \/ (Truthy(id(h, payload)) /\ id(h, payload) = id(h, listener.model))) ELSE listener.model = NoModel /\ (listener.event = NullEvent \/ event = listener.event)

\* the filter of runModelListeners, for an entity payload and for another
listenerFilter(h, event, payload, listener) == IF payload # NonEntity THEN (IF listener.model = NoModel THEN TRUE ELSE (listener.event = NullEvent \/ listener.event = event) /\ (payload = listener.model \/ (Truthy(id(h, payload)) /\ id(h, payload) = id(h, listener.model)))) ELSE listener.model = NoModel /\ (listener.event = NullEvent \/ event = listener.event)

ListenerCall(rid, payload) == [kind |-> "listener", id |-> rid, arg |-> payload]

UserCall(cb, payload) == [kind |-> "user", id |-> cb, arg |-> payload]

\* runModelListeners: the callbacks of the listeners the filter keeps, in order
RECURSIVE runModelListeners(_, _, _, _, _)
runModelListeners(h, ls, event, payload, i) == IF i > Len(ls) THEN <<>> ELSE (IF listenerFilter(h, event, payload, ls[i]) THEN <<ListenerCall(ls[i].rid, payload)>> ELSE <<>>) \o runModelListeners(h, ls, event, payload, i + 1)

\* eventEmitter.emit(event, data): each subscriber of the event in turn
RECURSIVE emit(_, _, _, _, _)
emit(h, L, event, payload, i) == IF i > Len(L.emitter[event]) THEN <<>> ELSE (IF L.emitter[event][i].kind = "internal" THEN runModelListeners(h, L.listeners, event, payload, 1) ELSE <<UserCall(L.emitter[event][i].cb, payload)>>) \o emit(h, L, event, payload, i + 1)

ThisListener == ListenerState(listeners, internalListeners, emitter)

CommitListener(L) == /\ listeners' = L.listeners
                     /\ internalListeners' = L.internalListeners
                     /\ emitter' = L.emitter
                     /\ emitterOff' = emitterOff

\* Listener.prototype.listenTo(model, event, callback); listenTo(model, callback)
\* and listenTo(callback) leave the event, and the model, null
listenTo(model, event) ==
    /\ registered < MaxRegs
    /\ registered' = registered + 1
    /\ CommitListener(bindInternalModelEventListener([ThisListener EXCEPT !.listeners = Append(@, makeListenerObject(model, event, registered + 1))], event))
    /\ triggered' = NoTrigger
    /\ calls' = <<>>
    /\ UNCHANGED <<modelVars, queueVars, syncVars, changeVars>>

ListenTo == \E model \in {NoModel} \cup Allocated, event \in EmitterKeys : listenTo(model, event)

UserSubs == Cardinality(UNION {{<<e, i>> : i \in {j \in DOMAIN emitter[e] : emitter[e][j].kind = "user"}} : e \in EmitterKeys})

\* Listener.prototype.on(event, callback)
on(event, cb) ==
    /\ UserSubs < MaxOn
    /\ CommitListener([bindInternalModelEventListener(ThisListener, event) EXCEPT !.emitter = [@ EXCEPT ![event] = Append(@, UserSub(cb))]])
    /\ triggered' = NoTrigger
    /\ calls' = <<>>
    /\ UNCHANGED <<registered, modelVars, queueVars, syncVars, changeVars>>

On == \E event \in Events : on(event, 1)

\* Listener.prototype.trigger(event, data)
trigger(event, payload) ==
    /\ triggered' = Ev(event, payload)
    /\ calls' = emit(heap, ThisListener, event, payload, 1)
    /\ UNCHANGED <<listeners, internalListeners, emitter, registered, emitterOff, modelVars, queueVars, syncVars, changeVars>>

TriggerCall == \E event \in Events, payload \in {NonEntity} \cup Allocated : trigger(event, payload)

\* the entities the listener specification triggers with: two objects of one
\* identity, one of identity 0, one without
ListenId(r) == IF r % 4 = 0 THEN Absent ELSE IF r % 4 = 3 THEN 0 ELSE 1

InitListenerModel == /\ heap = [r \in Refs |-> Entity(ListenId(r), Absent, Absent, Absent)]
                     /\ alloc = NumRefs
                     /\ data = <<>>
                     /\ byId = EmptyById
                     /\ saveQ = <<>>
                     /\ destroyQ = <<>>
                     /\ inflight = <<>>
                     /\ events = <<>>
                     /\ requests = <<>>

NextListen == ListenTo \/ On \/ TriggerCall

InitListen == InitListenerModel /\ InitQueue /\ InitListener /\ InitBuild /\ InitSync /\ InitChange

SpecListen == InitListen /\ [][NextListen]_vars

\* ------------------------------------- Listener: stop
\* stop() removing every registration of the same entity and event
BadStop(ls, rid) == IF \E i \in DOMAIN ls : ls[i].rid = rid THEN SelectSeq(ls, LAMBDA l : \A i \in DOMAIN ls : ls[i].rid = rid => (l.model # ls[i].model \/ l.event # ls[i].event)) ELSE ls

\* the stop() of the listener object rid: indexOf(listenerObj), then splice
stop(ls, rid) == IF \E i \in DOMAIN ls : ls[i].rid = rid THEN RemoveAt(ls, CHOOSE i \in DOMAIN ls : ls[i].rid = rid) ELSE ls

Stop(rid) ==
    /\ listeners' = stop(listeners, rid)
    /\ triggered' = NoTrigger
    /\ calls' = <<>>
    /\ UNCHANGED <<internalListeners, emitter, registered, emitterOff, modelVars, queueVars, syncVars, changeVars>>

StopCall == \E rid \in 1..registered : Stop(rid)

NextStop == ListenTo \/ StopCall \/ TriggerCall

SpecStop == InitListen /\ [][NextStop]_vars

\* ------------------------------------- Listener: stop during a dispatch
\* what the callbacks of a dispatch do: stops[rid] is the registration the
\* callback of rid calls stop() on, 0 when it calls none
Stoppers == [1..registered -> 0..registered]

\* the listeners the filter keeps
filtered(h, ls, event, payload) == SelectSeq(ls, LAMBDA l : listenerFilter(h, event, payload, l))

\* _.each walking this.listeners as the callbacks leave it
BadWalked(h, snapshot, ls, event, payload) == filtered(h, ls, event, payload)

\* _.each(_.filter(this.listeners, filter), ...): the array walked is the one
\* _.filter built before the first callback ran
walked(h, snapshot, ls, event, payload) == snapshot

\* the loop of runModelListeners from its i-th element on, the callbacks
\* stopping registrations on their way: the calls made, the listeners left
RECURSIVE runStopping(_, _, _, _, _, _, _)
runStopping(h, snapshot, ls, event, payload, stops, i) == IF i > Len(walked(h, snapshot, ls, event, payload)) THEN [calls |-> <<>>, listeners |-> ls] ELSE LET listener == walked(h, snapshot, ls, event, payload)[i]
                                                                                                                                                 rest == runStopping(h, snapshot, stop(ls, stops[listener.rid]), event, payload, stops, i + 1)
                                                                                                                                             IN [calls |-> <<ListenerCall(listener.rid, payload)>> \o rest.calls, listeners |-> rest.listeners]

\* eventEmitter.emit(event, data) with such callbacks, over the subscribers the
\* event had when emit began
RECURSIVE emitStopping(_, _, _, _, _, _, _)
emitStopping(h, subs, ls, event, payload, stops, i) == IF i > Len(subs) THEN [calls |-> <<>>, listeners |-> ls] ELSE IF subs[i].kind = "internal" THEN LET inner == runStopping(h, filtered(h, ls, event, payload), ls, event, payload, stops, 1)
                                                                                                                                                      rest == emitStopping(h, subs, inner.listeners, event, payload, stops, i + 1)
                                                                                                                                                  IN [calls |-> inner.calls \o rest.calls, listeners |-> rest.listeners]
                                                       ELSE LET rest == emitStopping(h, subs, ls, event, payload, stops, i + 1) IN [calls |-> <<UserCall(subs[i].cb, payload)>> \o rest.calls, listeners |-> rest.listeners]

\* Listener.prototype.trigger(event, data), the callbacks calling stop()
StoppingTrigger(event, payload, stops) ==
    /\ triggered' = Ev(event, payload)
    /\ calls' = emitStopping(heap, emitter[event], listeners, event, payload, stops, 1).calls
    /\ listeners' = emitStopping(heap, emitter[event], listeners, event, payload, stops, 1).listeners
    /\ UNCHANGED <<internalListeners, emitter, registered, emitterOff, modelVars, queueVars, syncVars, changeVars>>

StoppingTriggerCall == \E event \in Events, payload \in {NonEntity} \cup Allocated, stops \in Stoppers : StoppingTrigger(event, payload, stops)

NextDispatch == ListenTo \/ StoppingTriggerCall

SpecDispatch == InitListen /\ [][NextDispatch]_vars

\* ------------------------------------- Listener: once and off
\* the shim cb of once(event, callback), one function object per call
OnceSub(n) == [kind |-> "once", cb |-> n]

\* Listener.prototype.once(event, callback): this.on(event, cb)
once(event) ==
    /\ registered < MaxRegs
    /\ registered' = registered + 1
    /\ CommitListener([bindInternalModelEventListener(ThisListener, event) EXCEPT !.emitter = [@ EXCEPT ![event] = Append(@, OnceSub(registered + 1))]])
    /\ triggered' = NoTrigger
    /\ calls' = <<>>
    /\ UNCHANGED <<modelVars, queueVars, syncVars, changeVars>>

OnceCall == \E event \in Events : once(event)

\* eventEmitter.removeListener(event, callback): the last subscription of it
removeListener(subs, sub) == IF \E i \in DOMAIN subs : subs[i] = sub THEN RemoveAt(subs, CHOOSE i \in DOMAIN subs : subs[i] = sub /\ \A j \in (i + 1)..Len(subs) : subs[j] # sub) ELSE subs

\* Listener.prototype.off(event, callback) and off(event)
off(event, sub) ==
    /\ emitter' = [emitter EXCEPT ![event] = removeListener(@, sub)]
    /\ triggered' = NoTrigger
    /\ calls' = <<>>
    /\ UNCHANGED <<listeners, internalListeners, registered, emitterOff, modelVars, queueVars, syncVars, changeVars>>

offAll(event) ==
    /\ emitter' = [emitter EXCEPT ![event] = <<>>]
    /\ triggered' = NoTrigger
    /\ calls' = <<>>
    /\ UNCHANGED <<listeners, internalListeners, registered, emitterOff, modelVars, queueVars, syncVars, changeVars>>

OffCall == \E event \in Events : off(event, UserSub(1)) \/ offAll(event)

OnceCalled(n, payload) == [kind |-> "once", id |-> n, arg |-> payload]

Thrown(n, payload) == [kind |-> "throw", id |-> n, arg |-> payload]

\* eventEmitter.emit(event, data) over the subscribers at the time of the
\* call. The emitter calls the shim with itself as this: this.off(event, cb)
\* is the off of the EventEmitter, which unsubscribes the shim in a build that
\* has it and throws a TypeError, ending emit, in a build that has not
RECURSIVE emitOnce(_, _, _, _, _, _, _)
emitOnce(h, L, event, payload, subs, i, hasOff) == IF i > Len(subs) THEN [calls |-> <<>>, emitter |-> L.emitter]
    ELSE IF subs[i].kind = "once" /\ ~hasOff THEN [calls |-> <<Thrown(subs[i].cb, payload)>>, emitter |-> L.emitter]
    ELSE IF subs[i].kind = "once" THEN LET rest == emitOnce(h, [L EXCEPT !.emitter = [@ EXCEPT ![event] = removeListener(@, subs[i])]], event, payload, subs, i + 1, hasOff) IN [calls |-> <<OnceCalled(subs[i].cb, payload)>> \o rest.calls, emitter |-> rest.emitter]
    ELSE LET rest == emitOnce(h, L, event, payload, subs, i + 1, hasOff) IN [calls |-> (IF subs[i].kind = "internal" THEN runModelListeners(h, L.listeners, event, payload, 1) ELSE <<UserCall(subs[i].cb, payload)>>) \o rest.calls, emitter |-> rest.emitter]

\* Listener.prototype.trigger(event, data) with shims among the subscribers
triggerOnce(event, payload) ==
    /\ triggered' = Ev(event, payload)
    /\ calls' = emitOnce(heap, ThisListener, event, payload, emitter[event], 1, emitterOff).calls
    /\ emitter' = emitOnce(heap, ThisListener, event, payload, emitter[event], 1, emitterOff).emitter
    /\ UNCHANGED <<listeners, internalListeners, registered, emitterOff, modelVars, queueVars, syncVars, changeVars>>

TriggerOnceCall == \E event \in Events, payload \in {NonEntity} \cup Allocated : triggerOnce(event, payload)

NextOnce == OnceCall \/ On \/ OffCall \/ TriggerOnceCall

\* either build
InitOnce == InitModel /\ InitQueue /\ InitListener /\ emitterOff \in BOOLEAN /\ InitSync /\ InitChange

SpecOnce == InitOnce /\ [][NextOnce]_vars

\* off(event) among listenTo and trigger
OffAllCall == \E event \in Events : offAll(event)

NextOff == ListenTo \/ OffAllCall \/ TriggerCall

SpecOff == InitListen /\ [][NextOff]_vars

\* ------------------------------- Model.js, listeners of model changes
\* the values a caller passes to listenTo: an entity, a function, an event name
ObjectArg(model) == [type |-> "object", ref |-> model]

FunctionArg == [type |-> "function", ref |-> NoModel]

StringArg == [type |-> "string", ref |-> NoModel]

UndefinedArg == [type |-> "undefined", ref |-> NoModel]

\* listenTo(model, callback), listenTo(callback) and, as in the walkthrough,
\* listenTo(model, 'change', callback)
Walkthrough(model) == <<ObjectArg(model), StringArg, FunctionArg>>

ListenToArgs == {<<FunctionArg>>} \cup {<<ObjectArg(model), FunctionArg>> : model \in Allocated} \cup {Walkthrough(model) : model \in Allocated}

\* the parameter of a call: undefined past the arguments given
Param(args, i) == IF i <= Len(args) THEN args[i] ELSE UndefinedArg

\* Model.prototype.listenTo(model, callback): the listener object; given
\* records the arguments of the call that made it
listenerObj(args, rid) == IF Param(args, 1).type = "function" THEN [model |-> NoModel, callback |-> Param(args, 1), rid |-> rid, given |-> args] ELSE [model |-> Param(args, 1).ref, callback |-> Param(args, 2), rid |-> rid, given |-> args]

ModelListenTo(args) ==
    /\ listened < MaxRegs
    /\ listened' = listened + 1
    /\ modelChangeListeners' = Append(modelChangeListeners, listenerObj(args, listened + 1))
    /\ changeCalls' = <<>>
    /\ threw' = FALSE
    /\ UNCHANGED <<modelVars, queueVars, listenerVars, syncVars>>

ModelListenToCall == \E args \in ListenToArgs : ModelListenTo(args)

\* Model.prototype.stopListeningTo(listenerObj), also the stop() of the object
stopListeningTo(ls, rid) == IF \E i \in DOMAIN ls : ls[i].rid = rid THEN RemoveAt(ls, CHOOSE i \in DOMAIN ls : ls[i].rid = rid) ELSE ls

ModelStop(rid) ==
    /\ modelChangeListeners' = stopListeningTo(modelChangeListeners, rid)
    /\ changeCalls' = <<>>
    /\ threw' = FALSE
    /\ UNCHANGED <<listened, modelVars, queueVars, listenerVars, syncVars>>

ModelStopCall == \E rid \in 1..listened : ModelStop(rid)

\* the filter of callModelChangeListeners for an entity
changeFilter(h, model, listener) == listener.model = NoModel \/ model = listener.model \/ (Truthy(id(h, model)) /\ id(h, model) = id(h, listener.model))

ChangeCall(rid, model) == [rid |-> rid, arg |-> model]

\* callModelChangeListeners: listener.callback(model) for each listener the
\* filter keeps; calling a callback that is no function throws and ends the loop
RECURSIVE callModelChangeListeners(_, _, _, _)
callModelChangeListeners(h, ls, model, i) == IF i > Len(ls) THEN [calls |-> <<>>, threw |-> FALSE]
    ELSE IF ~changeFilter(h, model, ls[i]) THEN callModelChangeListeners(h, ls, model, i + 1)
    ELSE IF ls[i].callback.type # "function" THEN [calls |-> <<>>, threw |-> TRUE]
    ELSE [calls |-> <<ChangeCall(ls[i].rid, model)>> \o callModelChangeListeners(h, ls, model, i + 1).calls, threw |-> callModelChangeListeners(h, ls, model, i + 1).threw]

\* add(model) of one model while listeners are registered: the 'change' event
\* runs callModelChangeListeners; when a callback throws the second event is
\* not triggered and the save queue is not reached
Listened(st, model) ==
    LET found == findModelInLocalData(st, model)
        changed == IF found # NotFound THEN found ELSE model
        after == addOneToLocalData(st, model)
        outcome == callModelChangeListeners(after.heap, modelChangeListeners, changed, 1)
    IN /\ heap' = after.heap
       /\ data' = after.data
       /\ byId' = after.byId
       /\ events' = IF outcome.threw THEN <<Ev("change", changed)>> ELSE after.events
       /\ requests' = <<>>
       /\ saveQ' = IF outcome.threw THEN saveQ ELSE QueueAdd(saveQ, <<model>>)
       /\ changeCalls' = outcome.calls
       /\ threw' = outcome.threw
       /\ UNCHANGED <<alloc, destroyQ, inflight, modelChangeListeners, listened, queueVars, listenerVars, syncVars>>

ListenedAdd(model) == Len(data) < MaxStored /\ Listened(Here, model)

ListenedAddCall == \E model \in Allocated : ListenedAdd(model)

\* set(model, properties) while listeners are registered
ListenedSet(model, properties) == Len(data) < MaxStored /\ Listened(Store([heap EXCEPT ![model] = Extend(@, properties)], data, byId), model)

ListenedSetCall == \E model \in Allocated, properties \in SetProps : ListenedSet(model, properties)

NextChange == NewObject(MaxLiterals) \/ ListenedAddCall \/ ListenedSetCall \/ ModelListenToCall \/ ModelStopCall

SpecChange == InitAll /\ [][NextChange]_vars

\* ------------------------------------------- Repository (Repository.js)
\* Repository.prototype.get: the index for a truthy identity, _.find otherwise
get(st, modelOrId) == IF Truthy(id(st.heap, modelOrId)) THEN st.byId[id(st.heap, modelOrId)] ELSE Find(st.heap, st.data, st.heap[modelOrId])

\* Repository.prototype.addOne up to its two triggers: replace or push; this is
\* the store the subscribers of 'change' and of 'add' or 'update' are called in
addOneTriggered(st, model) == LET existingModel == get(st, model)
                                  canonical == IF existingModel # NotFound THEN existingModel ELSE model
                              IN [st EXCEPT !.heap = IF existingModel # NotFound THEN replaceObjectProperties(@, existingModel, model) ELSE @,
                                            !.data = IF existingModel # NotFound THEN @ ELSE Append(@, model),
                                            !.events = @ \o <<Ev("change", canonical), Ev(IF existingModel # NotFound THEN "update" ELSE "add", canonical)>>]

\* Repository.prototype.addOne: the identity is read first; replace or push,
\* the two triggers, then the index
addOne(st, model) == LET k == id(st.heap, model)
                         existingModel == get(st, model)
                         canonical == IF existingModel # NotFound THEN existingModel ELSE model
                     IN [addOneTriggered(st, model) EXCEPT !.byId = IF Truthy(k) THEN [@ EXCEPT ![k] = canonical] ELSE @]

\* Repository.prototype.removeOne: splice by reference, delete the index entry
\* of a truthy identity, the two triggers whether or not the model was stored
removeOne(st, model) == [st EXCEPT !.data = IF IndexOf(@, model) # 0 THEN RemoveAt(@, IndexOf(@, model)) ELSE @,
                                   !.byId = IF Truthy(id(st.heap, model)) THEN [@ EXCEPT ![id(st.heap, model)] = NotFound] ELSE @,
                                   !.events = @ \o <<Ev("change", model), Ev("remove", model)>>]

\* Repository.prototype.add(model) with one object
RepositoryAdd(model) ==
    /\ Len(data) < MaxStored
    /\ Commit(addOne(Here, model))
    /\ UNCHANGED <<alloc, saveQ, destroyQ, queueVars, listenerVars, syncVars, changeVars>>

RepositoryAddCall == \E model \in Allocated : RepositoryAdd(model)

\* Repository.prototype.remove(model) with one object
RepositoryRemove(model) ==
    /\ Commit(removeOne(Here, model))
    /\ UNCHANGED <<alloc, saveQ, destroyQ, queueVars, listenerVars, syncVars, changeVars>>

RepositoryRemoveCall == \E model \in Allocated : RepositoryRemove(model)

NextRepository == NewObject(MaxLiterals) \/ RepositoryAddCall \/ RepositoryRemoveCall

SpecRepository == InitAll /\ [][NextRepository]_vars

\* ------------------------------- replaceObjectProperties on a sequence
\* the second argument: an array, or something that is none (undefined, which
\* the default parameter turns into {}, or an object)
ArraySource(items) == [array |-> TRUE, items |-> items]

OtherSource == [array |-> FALSE, items |-> <<>>]

Sources == {ArraySource(items) : items \in {<<>>} \cup SeqsUpTo(Refs, MaxBatch)} \cup {OtherSource}

\* obj.push.apply(obj, newProperties): the elements of an array; an object
\* without length gives no arguments
pushed(source) == IF source.array THEN source.items ELSE <<>>

\* replaceObjectProperties(this.data, source)
Replace(source) ==
    /\ data' = replaceArrayProperties(data, pushed(source))
    /\ events' = <<>>
    /\ requests' = <<>>
    /\ UNCHANGED <<heap, alloc, byId, saveQ, destroyQ, inflight, queueVars, listenerVars, syncVars, changeVars>>

ReplaceCall == \E source \in Sources : Replace(source)

\* the target is any array of objects, of length 0 to MaxTarget
InitReplace == /\ heap = [r \in Refs |-> EmptyObj]
               /\ alloc = NumRefs
               /\ data \in {<<>>} \cup SeqsUpTo(Refs, MaxTarget)
               /\ byId = EmptyById
               /\ saveQ = <<>>
               /\ destroyQ = <<>>
               /\ inflight = <<>>
               /\ events = <<>>
               /\ requests = <<>>
               /\ InitQueue
               /\ InitListener
               /\ InitBuild
               /\ InitSync
               /\ InitChange

NextReplace == ReplaceCall

SpecReplace == InitReplace /\ [][NextReplace]_vars

\* ------------------------------------------------------------- claims
\* the entity carries an identity: Model.prototype.isNew is false of it
HasIdentity(model) == ~isNew(heap, model)

\* C1: after any sequence of Model.add calls no two elements of data carry the
\* same identity, and byId maps every identity held by an element of data to
\* that very element.
C1_IdentityUnique == /\ \A i, j \in DOMAIN data : (i # j /\ HasIdentity(data[i])) => id(heap, data[i]) # id(heap, data[j])
                     /\ \A i \in DOMAIN data : HasIdentity(data[i]) => byId[id(heap, data[i])] = data[i]

\* C2: in every state (a) every element of data with an identity k is byId[k],
\* (b) no element without an identity is a value of byId, (c) every key of
\* byId is the identity of an element of data.
C2_IndexConsistent == /\ \A i \in DOMAIN data : HasIdentity(data[i]) => byId[id(heap, data[i])] = data[i]
                      /\ \A i \in DOMAIN data : ~HasIdentity(data[i]) => \A k \in IdVals : byId[k] # data[i]
                      /\ \A k \in IdVals : byId[k] # NotFound => \E i \in DOMAIN data : id(heap, data[i]) = k

\* C3: add(entity2), while a different object entity1 of the same identity is
\* stored, leaves entity1 with exactly the fields of entity2 and does not insert
\* entity2 into data.
C3_InPlaceReplace == [][\A entity2 \in Allocated : (add(<<entity2>>) /\ HasIdentity(entity2)) => \A i \in DOMAIN data : (data[i] # entity2 /\ id(heap, data[i]) = id(heap, entity2)) => (heap'[data[i]] = heap[entity2] /\ data' = data)]_vars

\* C4: an entity passed to add causes exactly two events with the canonical
\* stored entity as payload: change then update with the entity the lookup
\* found, change then add with the entity itself when it found none.
C4_AddEvents == [][\A model \in Allocated : add(<<model>>) => LET found == findModelInLocalData(Here, model) IN /\ events' = (IF found # NotFound THEN <<Ev("change", found), Ev("update", found)>> ELSE <<Ev("change", model), Ev("add", model)>>) /\ \A i \in DOMAIN events' : events'[i].payload \in Range(data')]_vars

\* C9: no reference occurs twice in the queue, whatever add, remove, empty and
\* run calls were made.
C9_QueueUnique == \A i, j \in DOMAIN queue : i # j => queue[i] # queue[j]

\* add([x, x]) was the last call and x is queued once
C9_Witness == /\ called.op = "add"
              /\ Len(called.items) = 2
              /\ called.items[1] = called.items[2]
              /\ queue = <<called.items[1]>>

\* the requests of the log made for an entity
RequestsFor(reqs, model) == {j \in DOMAIN reqs : reqs[j].model = model}

OncePerEntity(q, reqs) == /\ Len(reqs) = Len(q)
                          /\ \A i \in DOMAIN q : Cardinality(RequestsFor(reqs, q[i])) = 1

\* the entities of a queue destroy(model) makes a request for
Requestable(model) == Truthy(id(heap, model))

Identified(q) == SelectSeq(q, Requestable)

\* C10, as stated: save() and destroy() without an argument hand the
\* communicator one request for each entity of the queue, and no other.
C10_DrainAll == [][(saveAll => OncePerEntity(saveQ, requests')) /\ (destroyAll => OncePerEntity(destroyQ, requests'))]_vars

\* C10, amended: save() hands the communicator one request for each entity of
\* the save queue; destroy() one request for each entity of the destroy queue
\* whose identity is truthy, and none for an entity whose identity is absent
\* or falsy.
C10_DrainIdentified == [][(saveAll => OncePerEntity(saveQ, requests')) /\ (destroyAll => OncePerEntity(Identified(destroyQ), requests'))]_vars

\* destroy() drained a queue holding an identified entity and one without
C10_Witness == /\ destroyQ = <<>>
               /\ requests # <<>>
               /\ requests[1].kind = "destroy"
               /\ events # <<>>

\* the callbacks of a registration in the last trigger
Invoked(rid) == Cardinality({i \in DOMAIN calls : calls[i].kind = "listener" /\ calls[i].id = rid})

Fired == triggered.event # "none"

\* C5: a registration scoped to entity e and event E is invoked by
\* trigger(E, e), not by trigger(E, other) for a different object of a
\* different identity, and not by trigger(F, e) with F another event.
C5_ListenerFiltering == \A i \in DOMAIN listeners : (Fired /\ triggered.payload # NonEntity /\ listeners[i].model # NoModel /\ listeners[i].event # NullEvent) =>
    /\ (triggered.event = listeners[i].event /\ triggered.payload = listeners[i].model) => Invoked(listeners[i].rid) >= 1
    /\ (triggered.event = listeners[i].event /\ triggered.payload # listeners[i].model /\ id(heap, triggered.payload) # id(heap, listeners[i].model)) => Invoked(listeners[i].rid) = 0
    /\ (triggered.event # listeners[i].event /\ triggered.payload = listeners[i].model) => Invoked(listeners[i].rid) = 0

\* listenTo(e, "update", cb) and another event bound; trigger("update", e) ran cb
C5_Witness == /\ triggered.event = "update"
              /\ triggered.payload # NonEntity
              /\ "add" \in Range(internalListeners)
              /\ \E i \in DOMAIN listeners : listeners[i].model = triggered.payload /\ listeners[i].event = "update" /\ Invoked(listeners[i].rid) = 1

\* C6: a registration without entity scope and with event E is invoked for an
\* entity payload only when the triggered event is E.
C6_EventFilter == \A i \in DOMAIN listeners : (Fired /\ triggered.payload # NonEntity /\ listeners[i].model = NoModel /\ listeners[i].event # NullEvent /\ Invoked(listeners[i].rid) > 0) => triggered.event = listeners[i].event

\* the scope of a registration holds the payload
InScope(listener, payload) == \/ listener.model = NoModel
                              \/ payload # NonEntity /\ (payload = listener.model \/ (id(heap, payload) # Absent /\ id(heap, payload) = id(heap, listener.model)))

\* C7: a registration without event name is invoked by trigger(X, payload) for
\* every event X whose payload is in its scope, whether or not X was ever named
\* by an on or listenTo call.
C7_Wildcard == \A i \in DOMAIN listeners : (Fired /\ listeners[i].event = NullEvent /\ InScope(listeners[i], triggered.payload)) => Invoked(listeners[i].rid) >= 1

\* the registrations the dispatch filter of the specification selects
Selected(listener) == /\ listener.event = NullEvent \/ listener.event = triggered.event
                      /\ InScope(listener, triggered.payload)

InternalSubs(event) == Cardinality({i \in DOMAIN emitter[event] : emitter[event][i].kind = "internal"})

\* C8: whatever listenTo and on calls named an event, there is one internal
\* subscriber for it, and one trigger of it invokes each selected registration
\* exactly once and no registration twice.
C8_NoDuplicates == /\ \A e \in EmitterKeys : InternalSubs(e) = (IF e \in Range(internalListeners) THEN 1 ELSE 0)
                   /\ (Fired /\ triggered.event \in Range(internalListeners)) => \A i \in DOMAIN listeners : Invoked(listeners[i].rid) <= 1 /\ (Selected(listeners[i]) => Invoked(listeners[i].rid) = 1)

\* two listenTo calls and an on call named the triggered event
C8_Witness == /\ Fired
              /\ Len(listeners) = 2
              /\ \A i \in DOMAIN listeners : listeners[i].event = triggered.event /\ Invoked(listeners[i].rid) = 1
              /\ Len(emitter[triggered.event]) = 2

\* C11: run() leaves the queue empty; a later rejection of a task puts no
\* entry back; an empty queue becomes non-empty by a call of add only.
C11_LossyOnFailure == [][/\ QueueRunCall => queue' = <<>>
                         /\ QueueTaskRejected => queue' = queue
                         /\ (queue = <<>> /\ queue' # <<>>) => QueueAddCall]_vars

\* a task of a run of two entries has rejected and the queue is empty
C11_Witness == /\ called.op = "rejected"
               /\ Len(ran) = 2
               /\ queue = <<>>

\* the task adds y when run() hands it x, x queued and y not queued at the call
AddsDuring(x, y) == /\ run(QueueTask(x, y))
                    /\ x \in Range(queue)
                    /\ y \notin Range(queue)

\* C12, as stated: the entry a task adds during the drain is not handed to the
\* task by this run() and is in the queue when run() returns.
C12_AddedStays == [][\A x, y \in QueueItems : AddsDuring(x, y) => (y \notin Range(ran') /\ y \in Range(queue'))]_vars

\* C12, amended: the entry a task adds during the drain is handed to the task
\* by the same run(), after x, and the queue is empty when run() returns.
C12_AddedDrained == [][\A x, y \in QueueItems : AddsDuring(x, y) => (\E i, j \in DOMAIN ran' : i < j /\ ran'[i] = x /\ ran'[j] = y) /\ queue' = <<>>]_vars

\* run() handed the task an entry x and then the entry y the task added for x
C12_Witness == /\ called.op = "run"
               /\ Len(called.items) = 2
               /\ ran = called.items
               /\ queue = <<>>

\* the object create returns: the one it allocates
Returned == alloc + 1

\* C13: the entity create(attrs) returns has the value of attrs for every field
\* attrs sets and the default for every other, so no identity unless attrs has
\* one, and it is in the save queue.
C13_CreateDefaults == [][\A attributes \in InputObjs : create(attributes) =>
    /\ \A f \in Fields : heap'[Returned][f] = (IF attributes[f] # Absent THEN attributes[f] ELSE defaults[f])
    /\ attributes[idAttribute] = Absent => isNew(heap', Returned)
    /\ Returned \in Range(saveQ')]_vars

\* create stored an entity whose name the attributes set over the default
C13_Witness == /\ alloc > 0
               /\ events = <<Ev("change", alloc), Ev("add", alloc)>>
               /\ heap[alloc]["name"] \in NameVals
               /\ heap[alloc]["name"] # defaults["name"]
               /\ alloc \in Range(saveQ)

\* C14: the object create(attrs) returns is an element of data after the call.
C14_CreateCanonical == [][\A attributes \in InputObjs : create(attributes) => Returned \in Range(data')]_vars

\* C15: clone of a stored entity leaves data one element longer and returns
\* another object, without identity, created-on and updated-on, with every
\* other field of the entity.
C15_CloneNew == [][\A model \in Allocated : (clone(model) /\ model \in Range(data)) =>
    /\ Len(data') = Len(data) + 1
    /\ Returned # model
    /\ \A f \in {idAttribute, createdOnAttribute, updatedOnAttribute} : heap'[Returned][f] = Absent
    /\ heap'[Returned]["name"] = heap[model]["name"]]_vars

\* the last call was reset() and its find-all request is the one in flight
JustReset == /\ requests = <<Dispatched("findAll", Absent, EmptyObj, NotFound)>>
             /\ Len(inflight) = 1

\* the object parsed from the answer that carries identity k, if any
Indexed(resp, k) == IF \E j \in DOMAIN resp : resp[j][idAttribute] = k THEN alloc + (CHOOSE j \in DOMAIN resp : resp[j][idAttribute] = k) ELSE NotFound

\* C16: when the find-all request of reset() resolves, data holds exactly the
\* entities of the answer, byId indexes exactly those, and both queues are
\* empty.
C16_ResetExact == [][\A i \in DOMAIN inflight, resp \in Responses : (resolvedFindAll(i, resp) /\ JustReset) =>
    /\ data' = Parsed(resp)
    /\ \A k \in IdVals : byId'[k] = Indexed(resp, k)
    /\ saveQ' = <<>>
    /\ destroyQ' = <<>>]_vars

\* the find-all requests in flight
FindAlls(reqs) == Len(SelectSeq(reqs, LAMBDA r : r.kind = "findAll"))

Saves(reqs) == Len(SelectSeq(reqs, LAMBDA r : r.kind \in {"create", "update"}))

Destroys(reqs) == Len(SelectSeq(reqs, LAMBDA r : r.kind = "destroy"))

\* C17: sync() hands the communicator the requests of the save queue and of
\* the destroy queue in one step, none of them settled; the find-all request
\* of reset() is dispatched only when none of them is in flight and none of
\* them has rejected.
C17_SyncOrdering == [][/\ sync => (/\ Saves(requests') = Len(saveQ)
                                   /\ Destroys(requests') = Len(Identified(destroyQ))
                                   /\ inflight' = inflight \o Wire(requests')
                                   /\ saveQ' = <<>>
                                   /\ destroyQ' = <<>>)
                       /\ FindAlls(inflight') > FindAlls(inflight) => (Unsettled = 0 /\ syncing = "waiting")]_vars

\* reset() of a sync() ran after an answer to one of its requests was parsed
C17_Witness == /\ syncing = "idle"
               /\ requests = <<Dispatched("findAll", Absent, EmptyObj, NotFound)>>
               /\ alloc > MaxSynced

\* C18: a rejection of a request of sync() rejects sync(), leaves data, byId
\* and the queues as they are and dispatches nothing; after it, until sync()
\* is called again, no find-all request is dispatched.
C18_SyncFailure == [][/\ (Rejected /\ syncing = "waiting" /\ Unsettled' < Unsettled) => (/\ syncing' = "failed"
                                                                                       /\ UNCHANGED <<data, byId, saveQ, destroyQ>>
                                                                                       /\ FindAlls(inflight') = FindAlls(inflight))
                      /\ (syncing = "failed" /\ syncing' # "waiting") => (syncing' = "failed" /\ FindAlls(inflight') <= FindAlls(inflight))]_vars

\* sync() has failed, its other requests have settled, and nothing was reset
\* or put back
C18_Witness == /\ syncing = "failed"
               /\ Unsettled = 0
               /\ FindAlls(inflight) = 0
               /\ data # <<>>
               /\ saveQ = <<>>
               /\ destroyQ = <<>>

\* the last call was save(e) for a stored e without identity, its create
\* request is the one in flight
JustSaved(e) == /\ requests = <<Dispatched("create", Absent, heap[e], e)>>
                /\ Len(inflight) = 1
                /\ e \in Range(data)
                /\ isNew(heap, e)

\* C19: when the answer to the create request of save(e) is reconciled, e
\* itself has the new identity k, byId[k] is e, and data is as long as before.
C19_CreateReconciled == [][\A i \in DOMAIN inflight, k \in ServerIds, e \in Allocated : (resolvedCreate(i, k) /\ JustSaved(e)) =>
    /\ id(heap', e) = k
    /\ byId'[k] = e
    /\ Len(data') = Len(data)]_vars

\* C20: destroy(entity) of an entity without identity makes no request and
\* takes the entity out of data; of an identified entity it makes exactly one
\* destroy request, for its identity.
C20_DestroyOne == [][\A model \in Allocated : destroy(model) =>
    IF isNew(heap, model) THEN requests' = <<>> /\ model \notin Range(data')
    ELSE requests' = <<Dispatched("destroy", id(heap, model), EmptyObj, model)>>]_vars

\* the elements of data the entity is found as: itself, or one of its identity
StoredAs(model) == {data[i] : i \in {j \in DOMAIN data : data[j] = model \/ (HasIdentity(model) /\ id(heap, data[j]) = id(heap, model))}}

\* C21: after remove(entity) every element of data the entity is found as, by
\* reference or by identity, is absent from data, its identity is absent from
\* byId, the entity is in the destroy queue, and no request was dispatched.
C21_RemoveStored == [][\A model \in Allocated : remove(<<model>>) =>
    /\ \A e \in StoredAs(model) : e \notin Range(data')
    /\ (StoredAs(model) # {} /\ HasIdentity(model)) => byId'[id(heap, model)] = NotFound
    /\ model \in Range(destroyQ')
    /\ requests' = <<>>
    /\ inflight' = inflight]_vars

\* the events of a log that carry the entity
EventsOf(ev, e) == SelectSeq(ev, LAMBDA x : x.payload = e)

\* the entities a call took out of data
TakenOut == {e \in Range(data) : Len(SelectSeq(data', LAMBDA x : x = e)) < Len(SelectSeq(data, LAMBDA x : x = e))}

\* C22: every entity Model.remove takes out of data causes exactly one change
\* event followed by exactly one remove event, both with the entity as payload.
C22_RemoveEvents == [][\A model \in Allocated : remove(<<model>>) => \A e \in TakenOut : EventsOf(events', e) = <<Ev("change", e), Ev("remove", e)>>]_vars

\* no element of data is the entity, and none shares its identity
NotStored(model) == StoredAs(model) = {}

\* C23: remove(x) of an entity that is not stored leaves data and byId
\* unchanged and emits no change and no remove event.
C23_RemoveAbsent == [][\A model \in Allocated : (RepositoryRemove(model) /\ NotStored(model)) =>
    /\ data' = data
    /\ byId' = byId
    /\ \A i \in DOMAIN events' : events'[i].event \notin {"change", "remove"}]_vars

\* the occurrences of the entity in a sequence
Occurrences(seq, e) == Len(SelectSeq(seq, LAMBDA x : x = e))

\* C24: remove(e) followed by add(e), for e stored in data, leaves e in data
\* exactly once, byId[k] = e when e has the identity k, and the add emits
\* change then add with e, and no update.
C24_RoundTrip == [][\A model \in Allocated : RemoveThenAdd(model) =>
    /\ Occurrences(data', model) = 1
    /\ HasIdentity(model) => byId'[id(heap, model)] = model
    /\ events' = <<Ev("change", model), Ev("add", model)>>]_vars

\* the calls of the callback of a registration in the last change event
ChangeInvoked(log, rid, model) == Len(SelectSeq(log, LAMBDA c : c.rid = rid /\ c.arg = model))

\* C25: after listenTo(model, 'change', cb), set(model, props) invokes cb
\* exactly once, with the changed model as its argument.
C25_WalkthroughListener == [][\A model \in Allocated, properties \in SetProps : ListenedSet(model, properties) =>
    \A i \in DOMAIN modelChangeListeners : modelChangeListeners[i].given = Walkthrough(model) =>
        /\ ChangeInvoked(changeCalls', modelChangeListeners[i].rid, model) = 1
        /\ ~threw']_vars

\* the shims subscribed to an event
Shims(subs) == {subs[i] : i \in {j \in DOMAIN subs : subs[j].kind = "once"}}

OnceInvoked(log, n) == Len(SelectSeq(log, LAMBDA c : c.kind = "once" /\ c.id = n))

\* C26: a trigger of the event invokes the callback of every once shim
\* subscribed to it exactly once and leaves the shim unsubscribed; no callback
\* of once is invoked by a trigger its shim was not subscribed at.
C26_Once == [][\A event \in Events, payload \in {NonEntity} \cup Allocated : triggerOnce(event, payload) =>
    /\ \A shim \in Shims(emitter[event]) : OnceInvoked(calls', shim.cb) = 1 /\ shim \notin Range(emitter'[event])
    /\ \A n \in 1..registered : OnceInvoked(calls', n) > 0 => OnceSub(n) \in Range(emitter[event])]_vars

\* the registrations that have not been stopped
Listening == {listeners[i].rid : i \in DOMAIN listeners}

\* the callbacks a trigger would invoke, those of one registration left out
Others(log, rid) == SelectSeq(log, LAMBDA c : c.id # rid)

\* the step of stop(): it takes its own registration out of listeners and no
\* other; what a trigger invokes of the other registrations is what it invoked
\* before; a second stop() changes nothing
C27_StopExact == [][\A rid \in 1..registered : Stop(rid) =>
    /\ rid \notin {listeners'[i].rid : i \in DOMAIN listeners'}
    /\ listeners' = SelectSeq(listeners, LAMBDA l : l.rid # rid)
    /\ \A event \in Events, payload \in {NonEntity} \cup Allocated : emit(heap, ListenerState(listeners', internalListeners', emitter'), event, payload, 1) = Others(emit(heap, ThisListener, event, payload, 1), rid)
    /\ rid \notin Listening => UNCHANGED <<listeners, internalListeners, emitter>>]_vars

\* a trigger invokes no callback of a stopped registration
C27_StoppedSilent == Fired => \A rid \in 1..registered : rid \notin Listening => Invoked(rid) = 0

\* C27: stop() removes exactly its own registration, which no later trigger
\* invokes, every other registration is invoked as before, and a second
\* stop() changes nothing.
C27_Stop == C27_StopExact /\ []C27_StoppedSilent

\* one of two registrations was stopped and a trigger invoked the other
C27_Witness == /\ registered = 2
               /\ Len(listeners) = 1
               /\ Fired
               /\ Invoked(listeners[1].rid) = 1

\* the places of data holding an entity of identity k
Holders(h, d, k) == {j \in DOMAIN d : id(h, d[j]) = k}

\* C28: overlapping saves. Whenever the response of an update request is
\* reconciled while data holds the identity of the request exactly once, in
\* whichever order the responses of the requests in flight arrive, the stored
\* entity's fields become the fields of that response (so that after two
\* overlapping saves they are those of the response reconciled last), and data
\* still holds the identity exactly once.
C28_OverlappingSaves == [][\A i \in DOMAIN inflight : (resolvedUpdate(i) /\ Cardinality(Holders(heap, data, inflight[i].id)) = 1) => (/\ Cardinality(Holders(heap', data', inflight[i].id)) = 1 /\ data' = data /\ \A j \in Holders(heap, data, inflight[i].id) : heap'[data[j]] = inflight[i].body)]_vars

\* the index as a subscriber reads it in the store st: the entity payload has
\* its identity indexed to itself, and so has every element of data
IndexedFor(st, payload) == /\ payload # NonEntity /\ st.heap[payload][idAttribute] # Absent => st.byId[st.heap[payload][idAttribute]] = payload
                           /\ \A e \in Range(st.data) : st.heap[e][idAttribute] # Absent => st.byId[st.heap[e][idAttribute]] = e

\* C29: index visible to listeners. When Repository.add(model) triggers
\* 'change' and 'add' or 'update', then in the store the subscribers are
\* called in, byId at the identity of the payload is the payload, and every
\* element of data that has an identity is the byId entry of that identity.
C29_IndexVisible == [][\A model \in Allocated : RepositoryAdd(model) => \A n \in DOMAIN addOneTriggered(Here, model).events : IndexedFor(addOneTriggered(Here, model), addOneTriggered(Here, model).events[n].payload)]_vars

\* C30: re-adding the same reference. Repository.add(e), for a stored e that
\* the lookup returns itself, leaves every field of e, data and byId as they
\* were.
C30_SameReference == [][\A model \in Allocated : (RepositoryAdd(model) /\ model \in Range(data) /\ get(Here, model) = model) => (heap'[model] = heap[model] /\ data' = data /\ byId' = byId)]_vars

\* C31: sequence replace. replaceObjectProperties(target, source) leaves the
\* target array with exactly the elements of source, in order, when source is
\* an array, and empty when it is none, whatever the target held before.
C31_SequenceReplace == [][\A source \in Sources : Replace(source) => data' = pushed(source)]_vars

\* the number of times the dispatch logged in log invoked the registration rid
InvokedIn(log, rid) == Len(SelectSeq(log, LAMBDA c : c.kind = "listener" /\ c.id = rid))

\* the registrations the filter keeps for the event and the payload
MatchedAtStart(event, payload) == {l.rid : l \in {listeners[j] : j \in {n \in DOMAIN listeners : listenerFilter(heap, event, payload, listeners[n])}}}

\* C32: unsubscribing during dispatch. When a callback invoked by a trigger
\* calls stop() on its own or on another registration, every registration that
\* matched when the dispatch started is invoked exactly once in that dispatch,
\* and no other registration is invoked.
C32_StopDuringDispatch == [][\A event \in Events, payload \in {NonEntity} \cup Allocated, stops \in Stoppers : (StoppingTrigger(event, payload, stops) /\ \E n \in DOMAIN calls' : calls'[n].kind = "listener" /\ stops[calls'[n].id] # 0) => \A rid \in 1..registered : InvokedIn(calls', rid) = (IF rid \in MatchedAtStart(event, payload) THEN 1 ELSE 0)]_vars

\* a dispatch that invoked two registrations, whose callbacks stopped both
C32_Witness == /\ registered = 2
               /\ triggered # NoTrigger
               /\ InvokedIn(calls, 1) = 1
               /\ InvokedIn(calls, 2) = 1
               /\ listeners = <<>>

\* C33: the queues are disjoint. After any sequence of add, set and remove no
\* entity is in the save queue and in the destroy queue at the same time.
C33_QueuesDisjoint == Range(saveQ) \cap Range(destroyQ) = {}

\* C34: clone does not touch its source. For an entity stored in data under
\* its identity k, clone(entity) leaves every field of the entity as it was
\* and byId[k] the entity.
C34_CloneFrame == [][\A model \in Allocated : (clone(model) /\ model \in Range(data) /\ Truthy(id(heap, model)) /\ byId[id(heap, model)] = model) => (heap'[model] = heap[model] /\ byId'[id(heap, model)] = model)]_vars

\* C35: off does not disable scoped listeners. Whether or not off(event) was
\* called before, and before or after the registration was made, a trigger of
\* the event invokes every listenTo registration made for that event that the
\* payload matches, once.
C35_OffKeepsListeners == [][\A event \in Events, payload \in {NonEntity} \cup Allocated : trigger(event, payload) => \A n \in DOMAIN listeners : (listeners[n].event = event /\ listenerFilter(heap, event, payload, listeners[n])) => InvokedIn(calls', listeners[n].rid) = 1]_vars

\* C36: server reconciliation marks nothing pending. Reconciling the response
\* of a find-all, create, update or destroy request leaves the save queue and
\* the destroy queue as they were.
C36_ReconcileFrame == [][(ResolvedFindAll \/ ResolvedCreate \/ ResolvedUpdate \/ ResolvedDestroy) => (saveQ' = saveQ /\ destroyQ' = destroyQ)]_vars

\* the answer to a request was stored as a new entity while an entity was
\* pending in the save queue
C36_Witness == /\ Len(events) = 2
               /\ events[2].event = "add"
               /\ events[2].payload > MaxSynced
               /\ events[2].payload \in Range(data)
               /\ saveQ # <<>>

\* C37: set keeps one copy. For an entity that occurs once in data and any
\* properties, after set(entity, properties) the entity occurs once in data,
\* data has the length it had, byId at the identity the entity now has is the
\* entity, and byId at an identity it no longer has is not.
C37_SetOneCopy == [][\A model \in Allocated, properties \in InputObjs : (set(model, properties) /\ Occurrences(data, model) = 1) =>
    /\ Occurrences(data', model) = 1
    /\ Len(data') = Len(data)
    /\ Truthy(id(heap', model)) => byId'[id(heap', model)] = model
    /\ (Truthy(id(heap, model)) /\ id(heap', model) # id(heap, model)) => byId'[id(heap, model)] # model]_vars

====
